---- MODULE Spec2Model ----
(***************************************************************************)
(* Model of scripts/analysis.py: the World Bank indicator fetcher, the     *)
(* dataset builder (outer-join fold, filters, required-field drop, rename, *)
(* derived columns), the trend plotter, the forecaster's year index and    *)
(* the orchestration in main.                                              *)
(*                                                                         *)
(* Representation.                                                         *)
(*   float      a pair <<n, d>> (n/d): <<n, 1>> an integer, <<1, 0>> inf,  *)
(*              <<-1, 0>> -inf, <<0, 0>> NaN (the missing-value marker).   *)
(*   JSON value [null |-> TRUE] or [num |-> n]; a JSON list [list |-> s].  *)
(*   DataFrame  [columns |-> <<names>>, rows |-> <<row>>], a row being a   *)
(*              function from the column names to their values.            *)
(*   call result [ok |-> TRUE, value |-> v] or [ok |-> FALSE, error |-> e] *)
(*              (a raised exception).                                      *)
(***************************************************************************)
EXTENDS Integers, Sequences, FiniteSets, TLC

VARIABLES
    pc,           \* the statement of main / build_dataset about to run
    args,         \* the literals main passes: countries, country_code, steps
    response,     \* the response of the last requests.get
    requests,     \* the number of network retrievals made
    frames,       \* build_dataset's frames, as far as fetched
    merged,       \* build_dataset's merged
    dataset,      \* main's dataset
    latest_data,  \* main's latest_data
    artifacts,    \* the files written, in order: [path, content]
    error         \* the exception that ended the run

vars == <<pc, args, response, requests, frames, merged, dataset, latest_data,
          artifacts, error>>

(***************************************************************************)
(* Bounds of the model.                                                    *)
(***************************************************************************)
\* longest observation list of a response in the runs of main
MaxRecs == 4
\* most rows over the four frames given to build_dataset in SpecBuild
MaxObs == 5
\* most rows of a table given to the forecaster in SpecPlot
MaxRows == 3
\* largest forecast horizon in SpecPlot
MaxSteps == 2

(***************************************************************************)
(* Generic helpers.                                                        *)
(***************************************************************************)
Return(v) == [ok |-> TRUE, value |-> v]

Raise(e) == [ok |-> FALSE, error |-> e]

InSeq(x, s) == \E i \in 1..Len(s) : s[i] = x

Range(s) == {s[i] : i \in 1..Len(s)}

RECURSIVE Concat(_)
Concat(ss) == IF ss = <<>> THEN <<>> ELSE Head(ss) \o Concat(Tail(ss))

RECURSIVE Dedupe(_)
Dedupe(s) ==
    IF s = <<>> THEN <<>>
    ELSE LET init == Dedupe(SubSeq(s, 1, Len(s) - 1))
             last == s[Len(s)]
         IN  IF InSeq(last, init) THEN init ELSE Append(init, last)

Abs(n) == IF n < 0 THEN -n ELSE n

RECURSIVE Gcd(_, _)
Gcd(a, b) == IF b = 0 THEN a ELSE Gcd(b, a % b)

(***************************************************************************)
(* Floating-point values as the code's arithmetic produces them.           *)
(***************************************************************************)
NaN == <<0, 0>>

Num(n) == <<n, 1>>

\* the canonical form of n/d: lowest terms, d >= 0; x/0 is +-inf, 0/0 is NaN
Norm(n, d) ==
    IF d = 0 THEN <<(IF n > 0 THEN 1 ELSE IF n < 0 THEN -1 ELSE 0), 0>>
    ELSE LET g == Gcd(Abs(n), Abs(d))
             s == IF d < 0 THEN -1 ELSE 1
         IN  <<(s * n) \div g, (s * d) \div g>>

\* pandas isna: NaN (and None) are missing; inf is not
isna(x) == x = NaN

\* Series * Series, element-wise (line 110)
FMul(x, y) == Norm(x[1] * y[1], x[2] * y[2])

\* Series / Series, element-wise true division (line 111): x/0 = +-inf, 0/0 = NaN
FDiv(x, y) == Norm(x[1] * y[2], x[2] * y[1])

(***************************************************************************)
(* Program constants.                                                      *)
(***************************************************************************)
indicators == <<"EG.FEC.RNEW.ZS", "EG.USE.PCAP.KG.OE", "SP.POP.TOTL", "NY.GDP.PCAP.KD">>

countries == <<"USA", "CHN", "IND", "JPN", "RUS", "DEU", "GBR", "FRA", "BRA", "CAN",
               "AUS", "ZAF", "MEX", "SAU", "IDN", "KOR", "ITA", "ESP", "TUR">>

MergeOn == <<"country_code", "country", "year">>

MinYear == 1990

CodeLen == 3

RequiredCols == <<"EG.FEC.RNEW.ZS", "EG.USE.PCAP.KG.OE">>

n_clusters == 3

steps_main == 10

forecast_country == "USA"

(***************************************************************************)
(* fetch_indicator (lines 22-55).                                          *)
(***************************************************************************)
Digits == <<"0", "1", "2", "3", "4", "5", "6", "7", "8", "9">>

DigitVal(c) == (CHOOSE i \in 1..Len(Digits) : Digits[i] = c) - 1

\* whether int(s) succeeds on the string s, given as its characters
IsIntLiteral(s) == Len(s) > 0 /\ \A i \in 1..Len(s) : InSeq(s[i], Digits)

\* int(s) for a decimal literal s (line 51)
RECURSIVE int(_)
int(s) ==
    IF s = <<>> THEN 0
    ELSE 10 * int(SubSeq(s, 1, Len(s) - 1)) + DigitVal(s[Len(s)])

\* requests' Response.raise_for_status (line 41): raises on 4xx and 5xx
RaiseForStatus(status) == status >= 400 /\ status < 600

\* a variant of the conversion below that reads null as zero
ToFloatNullAsZero(v) == IF "null" \in DOMAIN v THEN Num(0) ELSE Num(v.num)

\* a JSON value as pandas stores it in a numeric column: null is the missing marker
ToFloat(v) == IF "null" \in DOMAIN v THEN NaN ELSE Num(v.num)

\* whether the dict literal of lines 48-53 evaluates for rec without raising
RecOk(rec) ==
    /\ "countryiso3code" \in DOMAIN rec
    /\ "country" \in DOMAIN rec
    /\ "value" \in DOMAIN rec["country"]
    /\ "date" \in DOMAIN rec
    /\ IsIntLiteral(rec["date"])
    /\ "value" \in DOMAIN rec

\* the row appended for one observation (lines 47-54)
RowOf(indicator, rec) ==
    [c \in {"country_code", "country", "year", indicator} |->
        IF c = "country_code" THEN rec["countryiso3code"]
        ELSE IF c = "country" THEN rec["country"]["value"]
        ELSE IF c = "year" THEN int(rec["date"])
        ELSE ToFloat(rec["value"])]

\* a best-effort variant of the loop below: an observation that raises is skipped
RECURSIVE AppendRowsSkipBad(_, _, _)
AppendRowsSkipBad(indicator, records, rows) ==
    IF records = <<>> THEN Return(rows)
    ELSE IF ~RecOk(Head(records))
         THEN AppendRowsSkipBad(indicator, Tail(records), rows)
         ELSE AppendRowsSkipBad(indicator, Tail(records),
                                Append(rows, RowOf(indicator, Head(records))))

\* the loop of lines 45-54: an observation that raises ends the call
RECURSIVE AppendRows(_, _, _)
AppendRows(indicator, records, rows) ==
    IF records = <<>> THEN Return(rows)
    ELSE IF ~RecOk(Head(records)) THEN Raise("KeyError")
         ELSE AppendRows(indicator, Tail(records),
                         Append(rows, RowOf(indicator, Head(records))))

\* pd.DataFrame(rows) (line 55): an empty list gives a frame with no columns
DataFrame(rows, cols) ==
    [columns |-> IF rows = <<>> THEN <<>> ELSE cols, rows |-> rows]

\* the call's result for the response requests.get returned (lines 40-55)
fetch_indicator(indicator, resp) ==
    IF RaiseForStatus(resp.status) THEN Raise("HTTPError")
    ELSE IF "list" \notin DOMAIN resp.body THEN Raise("JSONDecodeError")
    ELSE LET json_data == resp.body.list IN
         IF Len(json_data) < 2 THEN Raise("IndexError")
         ELSE LET records == json_data[2] IN
              IF "list" \notin DOMAIN records THEN Raise("TypeError")
              ELSE LET r == AppendRows(indicator, records.list, <<>>) IN
                   IF ~r.ok THEN r
                   ELSE Return(DataFrame(r.value,
                            <<"country_code", "country", "year", indicator>>))

\* one call of requests.get (line 40) on the count of retrievals so far
RequestsGet(n) == n + 1

(***************************************************************************)
(* pandas operations used by build_dataset (lines 84-111).                 *)
(***************************************************************************)
\* the strings of the model in Python's string order (by code point)
StringOrder == <<"", "America", "CHN", "China", "FJI", "Fiji", "IND", "India",
                 "USA", "United States", "World">>

StrRank(s) == CHOOSE i \in 1..Len(StringOrder) : StringOrder[i] = s

\* lexicographic order of the join keys <<country_code, country, year>>
KeyLess(a, b) ==
    \/ StrRank(a[1]) < StrRank(b[1])
    \/ /\ a[1] = b[1]
       /\ \/ StrRank(a[2]) < StrRank(b[2])
          \/ a[2] = b[2] /\ a[3] < b[3]

SortedKeys(ks) ==
    LET S == Range(ks)
    IN  [i \in 1..Cardinality(S) |->
            CHOOSE k \in S : Cardinality({j \in S : KeyLess(j, k)}) = i - 1]

KeyOf(row, on) == [i \in 1..Len(on) |-> row[on[i]]]

KeysOf(df, on) == [i \in 1..Len(df.rows) |-> KeyOf(df.rows[i], on)]

\* the keys of a left join: those of the left side only
JoinKeysLeft(left, right, on, sort) ==
    LET ks == Dedupe(KeysOf(left, on))
    IN  IF sort THEN SortedKeys(ks) ELSE ks

\* the keys of the join's result, in the result's order.  how="outer" keeps the
\* keys of both sides; pandas orders them by first appearance (left, then right)
\* before 2.2 and lexicographically from 2.2 on, so sort is the build's choice.
JoinKeys(left, right, on, sort) ==
    LET ks == Dedupe(KeysOf(left, on) \o KeysOf(right, on))
    IN  IF sort THEN SortedKeys(ks) ELSE ks

\* rows stacked as a concatenation would: no row of one side joined to the other
RowsForConcat(left, right, on, cols, k) ==
    LET lrows == SelectSeq(left.rows, LAMBDA r : KeyOf(r, on) = k)
        rrows == SelectSeq(right.rows, LAMBDA r : KeyOf(r, on) = k)
        Pad(r) == [c \in Range(cols) |-> IF c \in DOMAIN r THEN r[c] ELSE NaN]
    IN  [i \in 1..Len(lrows) |-> Pad(lrows[i])] \o [j \in 1..Len(rrows) |-> Pad(rrows[j])]

\* the result's rows for key k: the product of the two sides' rows with that
\* key, a side without the key contributing NaN in its columns
RowsFor(left, right, on, cols, k) ==
    LET lrows == SelectSeq(left.rows, LAMBDA r : KeyOf(r, on) = k)
        rrows == SelectSeq(right.rows, LAMBDA r : KeyOf(r, on) = k)
        Pad(r) == [c \in Range(cols) |-> IF c \in DOMAIN r THEN r[c] ELSE NaN]
        Both(l, r) == [c \in Range(cols) |-> IF c \in DOMAIN l THEN l[c] ELSE r[c]]
    IN  IF lrows = <<>> THEN [j \in 1..Len(rrows) |-> Pad(rrows[j])]
        ELSE IF rrows = <<>> THEN [i \in 1..Len(lrows) |-> Pad(lrows[i])]
        ELSE Concat([i \in 1..Len(lrows) |->
                        [j \in 1..Len(rrows) |-> Both(lrows[i], rrows[j])]])

\* pd.merge(left, right, on=on, how="outer") (lines 85-87)
merge(left, right, on, sort) ==
    IF \E i \in 1..Len(on) : ~InSeq(on[i], left.columns) \/ ~InSeq(on[i], right.columns)
    THEN Raise("KeyError")
    ELSE LET cols == left.columns \o SelectSeq(right.columns, LAMBDA c : ~InSeq(c, on))
             keys == JoinKeys(left, right, on, sort)
         IN  Return([columns |-> cols,
                     rows |-> Concat([i \in 1..Len(keys) |->
                                         RowsFor(left, right, on, cols, keys[i])])])

\* reduce(lambda left, right: pd.merge(...), frames) (lines 84-89): a left fold
RECURSIVE reduce_merge(_, _)
reduce_merge(fs, sort) ==
    IF Len(fs) = 1 THEN Return(fs[1])
    ELSE LET acc == reduce_merge(SubSeq(fs, 1, Len(fs) - 1), sort)
         IN  IF ~acc.ok THEN acc
             ELSE merge(acc.value, fs[Len(fs)], MergeOn, sort)

\* the mask with | in place of &
YearCodeMaskOr(r) == r["year"] >= MinYear \/ Len(r["country_code"]) = CodeLen

\* the row mask of line 92
YearCodeMask(r) == r["year"] >= MinYear /\ Len(r["country_code"]) = CodeLen

\* merged[mask] (line 92)
filter_year_code(df) == [df EXCEPT !.rows = SelectSeq(@, YearCodeMask)]

\* merged[merged["country_code"].isin(countries)] (line 94)
filter_isin(df, cs) ==
    [df EXCEPT !.rows = SelectSeq(@, LAMBDA r : InSeq(r["country_code"], cs))]

\* the rows dropna(subset=..., how="all") would keep
KeepRowHowAll(r, subset) == \E i \in 1..Len(subset) : ~isna(r[subset[i]])

\* the rows dropna(subset=...) keeps (line 97): those with no missing value in subset
KeepRow(r, subset) == \A i \in 1..Len(subset) : ~isna(r[subset[i]])

dropna(df, subset) == [df EXCEPT !.rows = SelectSeq(@, LAMBDA r : KeepRow(r, subset))]

\* the columns mapping of lines 101-106
NewName(c) ==
    IF c = "EG.FEC.RNEW.ZS" THEN "renewable_share"
    ELSE IF c = "EG.USE.PCAP.KG.OE" THEN "energy_use_per_capita"
    ELSE IF c = "SP.POP.TOTL" THEN "population"
    ELSE IF c = "NY.GDP.PCAP.KD" THEN "gdp_per_capita"
    ELSE c

\* merged.rename(columns=...) (lines 100-107)
rename(df) ==
    LET RenRow(r) == [n \in {NewName(c) : c \in DOMAIN r} |->
                         r[CHOOSE c \in DOMAIN r : NewName(c) = n]]
    IN  [columns |-> [i \in 1..Len(df.columns) |-> NewName(df.columns[i])],
         rows |-> [i \in 1..Len(df.rows) |-> RenRow(df.rows[i])]]

\* the two column assignments of lines 110-111
derive(df) ==
    LET Ext(r) == [c \in DOMAIN r \cup {"total_energy_use", "energy_intensity"} |->
                     IF c = "total_energy_use"
                     THEN FMul(r["energy_use_per_capita"], r["population"])
                     ELSE IF c = "energy_intensity"
                     THEN FDiv(r["energy_use_per_capita"], r["gdp_per_capita"])
                     ELSE r[c]]
    IN  [columns |-> df.columns \o <<"total_energy_use", "energy_intensity">>,
         rows |-> [i \in 1..Len(df.rows) |-> Ext(df.rows[i])]]

(***************************************************************************)
(* Plotting and forecasting (lines 115-213).                               *)
(***************************************************************************)
\* the distinct values of s, in Python's string order (groupby sorts its keys)
SortedStrings(S) ==
    [i \in 1..Cardinality(S) |->
        CHOOSE x \in S : Cardinality({y \in S : StrRank(y) < StrRank(x)}) = i - 1]

\* the lines plt.plot draws in plot_line_trends (lines 118-119): one per group of
\* df.groupby("country_code"), each group's rows in the order they have in df
plot_line_trends(df, value_col) ==
    LET codes == SortedStrings({df.rows[i]["country_code"] : i \in 1..Len(df.rows)})
    IN  [g \in 1..Len(codes) |->
            LET group == SelectSeq(df.rows, LAMBDA r : r["country_code"] = codes[g])
            IN  [label |-> codes[g],
                 x |-> [j \in 1..Len(group) |-> group[j]["year"]],
                 y |-> [j \in 1..Len(group) |-> group[j][value_col]]]]

\* dataset[dataset["year"] == dataset["year"].max()] (lines 270-271)
latest_rows(df) ==
    [df EXCEPT !.rows =
        SelectSeq(@, LAMBDA r : \A i \in 1..Len(df.rows) : df.rows[i]["year"] <= r["year"])]

\* the points of plot_scatter (lines 171-173): one per row of df
plot_scatter(df, x_col, y_col) ==
    [i \in 1..Len(df.rows) |->
        [x |-> df.rows[i][x_col], y |-> df.rows[i][y_col],
         label |-> df.rows[i]["country_code"]]]

\* df[[x_col, y_col]].dropna() of plot_scatter_clusters (line 135)
cluster_data(df, x_col, y_col) ==
    SelectSeq(df.rows, LAMBDA r : ~isna(r[x_col]) /\ ~isna(r[y_col]))

\* rows.sort_values("year"): ascending, rows of equal year in their given order
sort_values_year(rows) ==
    [i \in 1..Len(rows) |->
        rows[CHOOSE j \in 1..Len(rows) :
                Cardinality({k \in 1..Len(rows) :
                                \/ rows[k]["year"] < rows[j]["year"]
                                \/ rows[k]["year"] = rows[j]["year"] /\ k < j}) = i - 1]]

\* the series without its final dropna
series_no_dropna(df, country_code) ==
    LET sel == sort_values_year(SelectSeq(df.rows, LAMBDA r : r["country_code"] = country_code))
    IN  [i \in 1..Len(sel) |-> <<sel[i]["year"], sel[i]["renewable_share"]>>]

\* the series of forecast_renewable_share (lines 190-195), as <<year, value>> pairs
series_of(df, country_code) ==
    LET sel == sort_values_year(SelectSeq(df.rows, LAMBDA r : r["country_code"] = country_code))
        ser == [i \in 1..Len(sel) |-> <<sel[i]["year"], sel[i]["renewable_share"]>>]
    IN  SelectSeq(ser, LAMBDA p : ~isna(p[2]))

\* series.index.max() (line 199), for a series that is not empty
index_max(series) ==
    CHOOSE y \in {series[i][1] : i \in 1..Len(series)} :
        \A i \in 1..Len(series) : series[i][1] <= y

\* Python's range(a, b) as a sequence
range(a, b) == [i \in 1..(IF b > a THEN b - a ELSE 0) |-> a + i - 1]

\* forecast_index (line 199)
forecast_index(series, steps) ==
    range(index_max(series) + 1, index_max(series) + 1 + steps)

(***************************************************************************)
(* The responses the API gives in the runs of main.                        *)
(***************************************************************************)
None == [none |-> TRUE]

JNull == [null |-> TRUE]

Chars1989 == <<"1", "9", "8", "9">>
Chars1990 == <<"1", "9", "9", "0">>
Chars1991 == <<"1", "9", "9", "1">>
Chars2020 == <<"2", "0", "2", "0">>

Observation(code, name, date, value) ==
    [countryiso3code |-> code, country |-> [id |-> "XX", value |-> name],
     date |-> date, value |-> value]

\* a page of observations as the API lists them: by country, latest year first
GridObs ==
    << Observation("USA", "United States", Chars1991, [num |-> 1]),
       Observation("USA", "United States", Chars1990, [num |-> 2]),
       Observation("CHN", "China", Chars1991, [num |-> 3]),
       Observation("IND", "India", Chars1991, [num |-> 4]),
       Observation("CHN", "China", Chars1990, [num |-> 5]),
       Observation("IND", "India", Chars1990, [num |-> 6]) >>

Min(a, b) == IF a < b THEN a ELSE b

\* the first n observations of the page, the last one's value null when nullLast
GridPrefix(n, nullLast) ==
    [i \in 1..n |-> IF nullLast /\ i = n THEN [GridObs[i] EXCEPT !["value"] = JNull]
                    ELSE GridObs[i]]

Meta == [page |-> 1, pages |-> 1]

OkResponse(recs) == [status |-> 200, body |-> [list |-> <<Meta, [list |-> recs]>>]]

WithoutField(rec, f) == [g \in DOMAIN rec \ {f} |-> rec[g]]

\* an observation that makes the dict literal of lines 48-53 raise
Defects(rec) ==
    { WithoutField(rec, "countryiso3code"), WithoutField(rec, "country"),
      WithoutField(rec, "date"), WithoutField(rec, "value"),
      [rec EXCEPT !["country"] = [id |-> "XX"]],
      [rec EXCEPT !["date"] = <<"2", "0", "Q", "1">>] }

MainOkResponses ==
    { OkResponse(GridPrefix(n, b)) : n \in 0..Min(MaxRecs, Len(GridObs)), b \in BOOLEAN }

MainBadResponses ==
    { [status |-> 404, body |-> [list |-> <<Meta, [list |-> GridPrefix(2, FALSE)]>>]],
      [status |-> 500, body |-> [invalid |-> TRUE]],
      [status |-> 200, body |-> [invalid |-> TRUE]],
      [status |-> 200, body |-> [list |-> <<[message |-> "invalid"]>>]],
      [status |-> 200, body |-> [list |-> <<Meta, JNull>>]] }
    \cup { OkResponse(<<GridObs[1], d, GridObs[3]>>) : d \in Defects(GridObs[2]) }

MainResponses == MainOkResponses \cup MainBadResponses

(***************************************************************************)
(* main (lines 216-290) and build_dataset (lines 58-112), statement by     *)
(* statement.                                                              *)
(***************************************************************************)
\* the order with the cluster chart drawn before the scatter chart
main_next_swapped(step) ==
    CASE step = "build_dataset"   -> "to_csv"
      [] step = "to_csv"          -> "trend_renewable"
      [] step = "trend_renewable" -> "trend_energy"
      [] step = "trend_energy"    -> "latest"
      [] step = "latest"          -> "clusters"
      [] step = "clusters"        -> "scatter"
      [] step = "scatter"         -> "forecast"
      [] step = "forecast"        -> "done"

\* the statement main runs after one that completed (lines 249-290)
main_next(step) ==
    CASE step = "build_dataset"   -> "to_csv"
      [] step = "to_csv"          -> "trend_renewable"
      [] step = "trend_renewable" -> "trend_energy"
      [] step = "trend_energy"    -> "latest"
      [] step = "latest"          -> "scatter"
      [] step = "scatter"         -> "clusters"
      [] step = "clusters"        -> "forecast"
      [] step = "forecast"        -> "done"

\* the arguments of main's calls (lines 219-239, 287-288)
MainArgs == [countries |-> countries, country_code |-> forecast_country,
             steps |-> steps_main]

Init ==
    /\ pc = "fetch"
    /\ args = MainArgs
    /\ response = None
    /\ requests = 0
    /\ frames = <<>>
    /\ merged = None
    /\ dataset = None
    /\ latest_data = None
    /\ artifacts = <<>>
    /\ error = None

\* an uncaught exception: the run ends where it is
Fail(exc) ==
    /\ pc' = "failed"
    /\ error' = [at |-> pc, exc |-> exc]

\* one element of the list comprehension of line 83: fetch_indicator(code)
Fetch(Responses) ==
    /\ pc = "fetch"
    /\ \E resp \in Responses :
         LET r == fetch_indicator(indicators[Len(frames) + 1], resp) IN
         /\ response' = resp
         /\ requests' = RequestsGet(requests)
         /\ IF r.ok
            THEN /\ frames' = Append(frames, r.value)
                 /\ pc' = IF Len(frames) + 1 = Len(indicators) THEN "merge" ELSE "fetch"
                 /\ error' = error
            ELSE /\ Fail(r.error)
                 /\ frames' = frames
    /\ UNCHANGED <<args, merged, dataset, latest_data, artifacts>>

\* merged = reduce(...) (lines 84-89)
Merge ==
    /\ pc = "merge"
    /\ \E sort \in BOOLEAN :
         LET r == reduce_merge(frames, sort) IN
         IF r.ok
         THEN /\ merged' = r.value
              /\ pc' = "filter_year_code"
              /\ error' = error
         ELSE /\ Fail(r.error)
              /\ merged' = merged
    /\ UNCHANGED <<args, response, requests, frames, dataset, latest_data, artifacts>>

\* line 92
FilterYearCode ==
    /\ pc = "filter_year_code"
    /\ merged' = filter_year_code(merged)
    /\ pc' = "filter_isin"
    /\ UNCHANGED <<args, response, requests, frames, dataset, latest_data, artifacts, error>>

\* line 94
FilterIsin ==
    /\ pc = "filter_isin"
    /\ merged' = filter_isin(merged, args.countries)
    /\ pc' = "dropna"
    /\ UNCHANGED <<args, response, requests, frames, dataset, latest_data, artifacts, error>>

\* line 97
DropNa ==
    /\ pc = "dropna"
    /\ merged' = dropna(merged, RequiredCols)
    /\ pc' = "rename"
    /\ UNCHANGED <<args, response, requests, frames, dataset, latest_data, artifacts, error>>

\* lines 100-107
Rename ==
    /\ pc = "rename"
    /\ merged' = rename(merged)
    /\ pc' = "derive"
    /\ UNCHANGED <<args, response, requests, frames, dataset, latest_data, artifacts, error>>

\* lines 110-112 and the assignment of line 249: build_dataset returns, its
\* locals are gone
Derive ==
    /\ pc = "derive"
    /\ dataset' = derive(merged)
    /\ merged' = None
    /\ frames' = <<>>
    /\ pc' = main_next("build_dataset")
    /\ UNCHANGED <<args, response, requests, latest_data, artifacts, error>>

\* a step of main that writes one file: it writes it, or raises (an I/O error,
\* or an error of the plotting library) and writes nothing
WriteStep(step, path, content) ==
    /\ pc = step
    /\ \E ok \in BOOLEAN :
         IF ok
         THEN /\ artifacts' = Append(artifacts, [path |-> path, content |-> content])
              /\ pc' = main_next(step)
              /\ error' = error
         ELSE /\ Fail("OSError")
              /\ artifacts' = artifacts
    /\ UNCHANGED <<args, response, requests, frames, merged, dataset, latest_data>>

\* lines 250-251
ToCsv == WriteStep("to_csv", "data/processed_data.csv", dataset)

\* lines 254-260
TrendRenewable ==
    WriteStep("trend_renewable", "figures/renewable_share_trends.png",
              plot_line_trends(dataset, "renewable_share"))

\* lines 261-267
TrendEnergy ==
    WriteStep("trend_energy", "figures/energy_use_per_capita_trends.png",
              plot_line_trends(dataset, "energy_use_per_capita"))

\* lines 270-271
Latest ==
    /\ pc = "latest"
    /\ latest_data' = latest_rows(dataset)
    /\ pc' = main_next("latest")
    /\ UNCHANGED <<args, response, requests, frames, merged, dataset, artifacts, error>>

\* lines 272-277
Scatter ==
    WriteStep("scatter", "figures/renewable_vs_energyuse_scatter.png",
              plot_scatter(latest_data, "energy_use_per_capita", "renewable_share"))

\* lines 278-284: KMeans raises when it is given fewer samples than clusters
Clusters ==
    /\ pc = "clusters"
    /\ LET data == cluster_data(latest_data, "energy_use_per_capita", "renewable_share") IN
       IF Len(data) < n_clusters
       THEN /\ Fail("ValueError")
            /\ UNCHANGED <<args, response, requests, frames, merged, dataset,
                           latest_data, artifacts>>
       ELSE WriteStep("clusters", "figures/kmeans_clusters.png",
                      [k |-> n_clusters, points |-> data])

\* lines 285-290: the model fit raises on an empty series, and may raise on a
\* series it cannot estimate
Forecast ==
    /\ pc = "forecast"
    /\ LET series == series_of(dataset, args.country_code) IN
       IF series = <<>>
       THEN /\ Fail("ValueError")
            /\ UNCHANGED <<args, response, requests, frames, merged, dataset,
                           latest_data, artifacts>>
       ELSE WriteStep("forecast", "figures/usa_renewable_share_forecast.png",
                      [historical |-> series,
                       forecast_index |-> forecast_index(series, args.steps)])

Next ==
    \/ Fetch(MainResponses)
    \/ Merge
    \/ FilterYearCode
    \/ FilterIsin
    \/ DropNa
    \/ Rename
    \/ Derive
    \/ ToCsv
    \/ TrendRenewable
    \/ TrendEnergy
    \/ Latest
    \/ Scatter
    \/ Clusters
    \/ Forecast

Spec == Init /\ [][Next]_vars

(***************************************************************************)
(* SpecFetch: one call of fetch_indicator on any response built from a few *)
(* observations, well-formed or not.                                       *)
(***************************************************************************)
FetchCodes == {"USA", "FJI", ""}

FetchDates == {Chars1989, Chars1990, Chars2020}

FetchValues == {JNull, [num |-> 0], [num |-> 1]}

CountryName(code) ==
    IF code = "USA" THEN "United States" ELSE IF code = "FJI" THEN "Fiji" ELSE "World"

FetchObs ==
    LET good == { Observation(c, CountryName(c), d, v) :
                    c \in FetchCodes, d \in FetchDates, v \in FetchValues }
    IN  good \cup Defects(Observation("USA", "United States", Chars2020, [num |-> 1]))

\* the sequences over S of length at most n
SeqsUpTo(S, n) == UNION { [1..k -> S] : k \in 0..n }

MaxFetchRecs == 2

FetchResponses ==
    { [status |-> st, body |-> [list |-> <<Meta, [list |-> recs]>>]] :
        st \in {200, 404}, recs \in SeqsUpTo(FetchObs, MaxFetchRecs) }
    \cup MainBadResponses

FetchOnce == requests = 0 /\ Fetch(FetchResponses)

SpecFetch == Init /\ [][FetchOnce]_vars

(***************************************************************************)
(* SpecBuild: build_dataset from the point where its four fetches have     *)
(* returned, over a few small sets of observations.                        *)
(***************************************************************************)
BaseObs == Observation("USA", "United States", Chars1990, [num |-> 2])

AltCountries == <<"FJI", "">>

Scenarios ==
    { \* missing and zero values at one key
      [obs |-> { BaseObs, [BaseObs EXCEPT !["value"] = JNull],
                 [BaseObs EXCEPT !["value"] = [num |-> 0]] },
       countries |-> countries],
      \* years around the cut-off
      [obs |-> { BaseObs, [BaseObs EXCEPT !["date"] = Chars1989],
                 [BaseObs EXCEPT !["date"] = Chars1991] },
       countries |-> countries],
      \* codes outside the list and of another length
      [obs |-> { BaseObs, Observation("FJI", "Fiji", Chars1990, [num |-> 2]),
                 Observation("", "World", Chars1990, [num |-> 2]) },
       countries |-> countries],
      [obs |-> { BaseObs, Observation("FJI", "Fiji", Chars1990, [num |-> 2]),
                 Observation("", "World", Chars1990, [num |-> 2]) },
       countries |-> AltCountries],
      \* one code under two names, and a second country
      [obs |-> { BaseObs, Observation("USA", "America", Chars1990, [num |-> 2]),
                 Observation("CHN", "China", Chars1990, [num |-> 2]) },
       countries |-> countries] }

\* the states build_dataset is in after four fetches that returned rows
InitBuild ==
    \E sc \in Scenarios :
    \E lens \in [1..Len(indicators) -> 1..MaxObs] :
        /\ lens[1] + lens[2] + lens[3] + lens[4] <= MaxObs
        /\ \E r1 \in [1..lens[1] -> sc.obs], r2 \in [1..lens[2] -> sc.obs],
              r3 \in [1..lens[3] -> sc.obs], r4 \in [1..lens[4] -> sc.obs] :
             /\ frames = << fetch_indicator(indicators[1], OkResponse(r1)).value,
                            fetch_indicator(indicators[2], OkResponse(r2)).value,
                            fetch_indicator(indicators[3], OkResponse(r3)).value,
                            fetch_indicator(indicators[4], OkResponse(r4)).value >>
             /\ response = OkResponse(r4)
        /\ args = [MainArgs EXCEPT !.countries = sc.countries]
        /\ pc = "merge"
        /\ requests = Len(indicators)
        /\ merged = None
        /\ dataset = None
        /\ latest_data = None
        /\ artifacts = <<>>
        /\ error = None

NextBuild ==
    \/ Merge
    \/ FilterYearCode
    \/ FilterIsin
    \/ DropNa
    \/ Rename
    \/ Derive

SpecBuild == InitBuild /\ [][NextBuild]_vars

(***************************************************************************)
(* SpecPlot: forecast_renewable_share on any small table with the          *)
(* dataset's columns, any target country and horizon.                      *)
(***************************************************************************)
PlotCodes == {"USA", "CHN"}

PlotYears == 1990..1992

PlotRow(code, year, share) ==
    [c \in {"country_code", "country", "year", "renewable_share",
            "energy_use_per_capita", "population", "gdp_per_capita",
            "total_energy_use", "energy_intensity"} |->
        IF c = "country_code" THEN code
        ELSE IF c = "country" THEN (IF code = "USA" THEN "United States" ELSE "China")
        ELSE IF c = "year" THEN year
        ELSE IF c = "renewable_share" THEN share
        ELSE Num(1)]

PlotRows == { PlotRow(c, y, v) : c \in PlotCodes, y \in PlotYears, v \in {NaN, Num(5)} }

DatasetColumns ==
    <<"country_code", "country", "year", "renewable_share", "energy_use_per_capita",
      "population", "gdp_per_capita", "total_energy_use", "energy_intensity">>

InitPlot ==
    /\ \E rows \in SeqsUpTo(PlotRows, MaxRows) :
         dataset = [columns |-> DatasetColumns, rows |-> rows]
    /\ \E c \in PlotCodes, n \in 0..MaxSteps :
         args = [MainArgs EXCEPT !.country_code = c, !.steps = n]
    /\ pc = "forecast"
    /\ response = None
    /\ requests = Len(indicators)
    /\ frames = <<>>
    /\ merged = None
    /\ latest_data = None
    /\ artifacts = <<>>
    /\ error = None

SpecPlot == InitPlot /\ [][Forecast]_vars

(***************************************************************************)
(* Properties.                                                             *)
(***************************************************************************)
\* the join key of a row, as the claims name it
Key3(r) == <<r["country_code"], r["country"], r["year"]>>

Key2(r) == <<r["country_code"], r["year"]>>

\* build_dataset holds its frames and the table it is working on
InBuild == pc \in {"filter_year_code", "filter_isin", "dropna", "rename", "derive"}

\* build_dataset has returned its table to main
Returned == pc = "to_csv"

\* C1 (filter correctness): every row of the table build_dataset returns, and of
\* its working table once both filters have run, has year >= 1990 and a
\* country_code of exactly 3 characters that is in the supplied country list.
C1_FilterCorrectness ==
    LET Good(r) == /\ r["year"] >= 1990
                   /\ Len(r["country_code"]) = 3
                   /\ \E i \in 1..Len(args.countries) : args.countries[i] = r["country_code"]
    IN  /\ pc \in {"dropna", "rename", "derive"} =>
              \A i \in 1..Len(merged.rows) : Good(merged.rows[i])
        /\ Returned => \A i \in 1..Len(dataset.rows) : Good(dataset.rows[i])

\* a table with rows left after the filters, built from fetches that held an
\* observation before 1990 and one whose code is not in the list
C1_Witness ==
    /\ pc = "derive"
    /\ merged.rows # <<>>
    /\ \E f \in 1..Len(frames) : \E i \in 1..Len(frames[f].rows) :
           frames[f].rows[i]["year"] < 1990
           \/ ~InSeq(frames[f].rows[i]["country_code"], args.countries)

\* C2 (required-field completeness): no row of the returned table lacks
\* renewable_share or energy_use_per_capita, and the rows left after the drop are
\* exactly the rows of the joined table that pass both filters and hold both
\* required values: rows lacking only population or gdp_per_capita stay.
C2_RequiredFields ==
    LET Kept(r) == /\ r["year"] >= 1990
                   /\ Len(r["country_code"]) = 3
                   /\ \E i \in 1..Len(args.countries) : args.countries[i] = r["country_code"]
                   /\ r["EG.FEC.RNEW.ZS"] # <<0, 0>>
                   /\ r["EG.USE.PCAP.KG.OE"] # <<0, 0>>
    IN  /\ pc = "rename" =>
              \E sort \in BOOLEAN :
                  merged.rows = SelectSeq(reduce_merge(frames, sort).value.rows, Kept)
        /\ Returned =>
              \A i \in 1..Len(dataset.rows) :
                  /\ dataset.rows[i]["renewable_share"] # <<0, 0>>
                  /\ dataset.rows[i]["energy_use_per_capita"] # <<0, 0>>

\* after the drop: a row without population was kept and a joined row was removed
C2_Witness ==
    /\ pc = "rename"
    /\ \E i \in 1..Len(merged.rows) : merged.rows[i]["SP.POP.TOTL"] = <<0, 0>>
    /\ Len(merged.rows) < Len(reduce_merge(frames, FALSE).value.rows)

\* C3 (join completeness): the table the outer-join fold returns holds exactly the
\* keys (country_code, country, year) seen in any of the four fetches, and at each
\* key every indicator's fetched values where that indicator has the key and the
\* missing-value marker where it does not.
C3_JoinCompleteness ==
    pc = "filter_year_code" =>
        LET FrameKeys(f) == {Key3(frames[f].rows[i]) : i \in 1..Len(frames[f].rows)}
            MergedKeys == {Key3(merged.rows[i]) : i \in 1..Len(merged.rows)}
            Fetched(f, k) == {frames[f].rows[i][indicators[f]] :
                                i \in {j \in 1..Len(frames[f].rows) : Key3(frames[f].rows[j]) = k}}
            Held(f, k) == {merged.rows[i][indicators[f]] :
                                i \in {j \in 1..Len(merged.rows) : Key3(merged.rows[j]) = k}}
        IN  /\ MergedKeys = UNION {FrameKeys(f) : f \in 1..Len(frames)}
            /\ \A k \in MergedKeys : \A f \in 1..Len(frames) :
                   Held(f, k) = IF k \in FrameKeys(f) THEN Fetched(f, k) ELSE {<<0, 0>>}

\* the fold has returned; a key of the last fetch is absent from the first, and a
\* key of the first fetch is absent from the last
C3_Witness ==
    /\ pc = "filter_year_code"
    /\ \E i \in 1..Len(frames[4].rows) :
           \A j \in 1..Len(frames[1].rows) : Key3(frames[1].rows[j]) # Key3(frames[4].rows[i])
    /\ \E i \in 1..Len(frames[1].rows) :
           \A j \in 1..Len(frames[4].rows) : Key3(frames[4].rows[j]) # Key3(frames[1].rows[i])

\* whether no two rows of the sequence share a key
UniqueBy(rows, K(_)) ==
    \A i, j \in 1..Len(rows) : K(rows[i]) = K(rows[j]) => i = j

\* C4 as stated: provided each fetch has at most one row per (country_code, year),
\* the merged table has at most one row per (country_code, year).
C4_Original ==
    (InBuild /\ \A f \in 1..Len(frames) : UniqueBy(frames[f].rows, Key2))
        => UniqueBy(merged.rows, Key2)

\* C4 (amended): provided each fetch has at most one row per (country_code,
\* country, year), the merged table has at most one row per (country_code,
\* country, year), and the joined row of a key carries, for each indicator, the
\* value fetched at that key or the missing-value marker.
C4_KeyUniqueness ==
    (InBuild /\ \A f \in 1..Len(frames) : UniqueBy(frames[f].rows, Key3))
        => /\ UniqueBy(merged.rows, Key3)
           /\ pc = "filter_year_code" =>
                 \A i \in 1..Len(merged.rows) : \A f \in 1..Len(frames) :
                     LET at == {j \in 1..Len(frames[f].rows) :
                                   Key3(frames[f].rows[j]) = Key3(merged.rows[i])}
                     IN  merged.rows[i][indicators[f]] =
                            IF at = {} THEN <<0, 0>>
                            ELSE frames[f].rows[CHOOSE j \in at : TRUE][indicators[f]]

\* the spec's scenario: renewable_share and population fetched at a key,
\* energy_use_per_capita not: one joined row holds both values
C4_Witness ==
    /\ pc = "filter_year_code"
    /\ \A f \in 1..Len(frames) : UniqueBy(frames[f].rows, Key3)
    /\ \E i \in 1..Len(merged.rows) :
           /\ merged.rows[i]["EG.FEC.RNEW.ZS"] # <<0, 0>>
           /\ merged.rows[i]["SP.POP.TOTL"] # <<0, 0>>
           /\ merged.rows[i]["EG.USE.PCAP.KG.OE"] = <<0, 0>>
           /\ \A j \in 1..Len(frames[2].rows) : Key3(frames[2].rows[j]) # Key3(merged.rows[i])

\* C5 as stated: in every row of the returned table total_energy_use is missing
\* whenever population is missing, and energy_intensity is missing whenever
\* gdp_per_capita is missing or zero.
C5_MissingPropagation ==
    Returned =>
        \A i \in 1..Len(dataset.rows) :
            LET r == dataset.rows[i] IN
            /\ r["population"] = <<0, 0>> => r["total_energy_use"] = <<0, 0>>
            /\ (r["gdp_per_capita"] = <<0, 0>> \/ r["gdp_per_capita"] = <<0, 1>>)
                   => r["energy_intensity"] = <<0, 0>>

\* the year a date string of the model denotes
YearOfDate(date) ==
    CASE date = Chars1989 -> 1989
      [] date = Chars1990 -> 1990
      [] date = Chars1991 -> 1991
      [] date = Chars2020 -> 2020

\* whether the value is one of the model's date strings
IsYearDate(date) == date \in {Chars1989, Chars1990, Chars1991, Chars2020}

\* a response with success status whose second element is a list of observation
\* objects that hold every expected field
WellFormed(resp) ==
    /\ resp.status = 200
    /\ "list" \in DOMAIN resp.body
    /\ Len(resp.body.list) >= 2
    /\ "list" \in DOMAIN resp.body.list[2]
    /\ \A i \in 1..Len(resp.body.list[2].list) :
           LET o == resp.body.list[2].list[i] IN
           /\ {"countryiso3code", "country", "date", "value"} \subseteq DOMAIN o
           /\ "value" \in DOMAIN o["country"]
           /\ IsYearDate(o["date"])

\* C6 (fetcher mapping): for a well-formed response with n observation objects
\* fetch_indicator returns n rows, the i-th with country_code = countryiso3code,
\* country = country.value, year = the integer the date denotes and the value
\* unchanged; a null value becomes the missing-value marker, never zero.
C6_FetcherMapping ==
    (requests = 1 /\ WellFormed(response)) =>
        /\ pc = "fetch"
        /\ Len(frames) = 1
        /\ LET objs == response.body.list[2].list
               rows == frames[1].rows
           IN  /\ Len(rows) = Len(objs)
               /\ \A i \in 1..Len(objs) :
                      /\ rows[i]["country_code"] = objs[i]["countryiso3code"]
                      /\ rows[i]["country"] = objs[i]["country"]["value"]
                      /\ rows[i]["year"] = YearOfDate(objs[i]["date"])
                      /\ IF "null" \in DOMAIN objs[i]["value"]
                         THEN rows[i][indicators[1]] = <<0, 0>>
                         ELSE rows[i][indicators[1]] = <<objs[i]["value"].num, 1>>

\* a well-formed response of two observations, one with a null value and one
\* with a number, has been mapped
C6_Witness ==
    /\ requests = 1
    /\ WellFormed(response)
    /\ Len(frames) = 1
    /\ Len(response.body.list[2].list) = 2
    /\ "null" \in DOMAIN response.body.list[2].list[1]["value"]
    /\ "num" \in DOMAIN response.body.list[2].list[2]["value"]

\* a response the claim names as failing: a status that is not success, no
\* second element, or an observation object without an expected field
BadResponse(resp) ==
    \/ resp.status < 200 \/ resp.status > 299
    \/ "list" \in DOMAIN resp.body /\ Len(resp.body.list) < 2
    \/ /\ "list" \in DOMAIN resp.body
       /\ Len(resp.body.list) >= 2
       /\ "list" \in DOMAIN resp.body.list[2]
       /\ \E i \in 1..Len(resp.body.list[2].list) :
              LET o == resp.body.list[2].list[i] IN
              \/ ~({"countryiso3code", "country", "date", "value"} \subseteq DOMAIN o)
              \/ "country" \in DOMAIN o /\ "value" \notin DOMAIN o["country"]

\* C7 (fetcher failure): after such a response the run has ended in the error of
\* that call, the call added no frame (not even the rows of its well-formed
\* observations), it made one retrieval (requests = calls made), and no merged
\* table, dataset or file exists.
C7_FetcherFailure ==
    (requests > 0 /\ BadResponse(response)) =>
        /\ pc = "failed"
        /\ error.at = "fetch"
        /\ Len(frames) = requests - 1
        /\ merged = None
        /\ dataset = None
        /\ artifacts = <<>>

\* the third fetch got a response whose first observation is well formed and
\* whose second lacks a field
C7_Witness ==
    /\ pc = "failed"
    /\ requests = 3
    /\ response.status = 200
    /\ BadResponse(response)
    /\ Len(response.body.list) >= 2
    /\ RecOk(response.body.list[2].list[1])

\* C8 (forecast horizon): a forecast chart pairs the forecast with exactly steps
\* years, last+1 .. last+steps, strictly increasing, last being the largest year
\* among the target country's rows that hold a renewable_share, whatever the
\* order of the table's rows.
C8_ForecastHorizon ==
    pc = "done" =>
        LET fi == artifacts[Len(artifacts)].content.forecast_index
            observed == {dataset.rows[i]["year"] :
                            i \in {j \in 1..Len(dataset.rows) :
                                     /\ dataset.rows[j]["country_code"] = args.country_code
                                     /\ dataset.rows[j]["renewable_share"] # <<0, 0>>}}
        IN  /\ observed # {}
            /\ Len(fi) = args.steps
            /\ \A i \in 1..Len(fi) :
                   /\ fi[i] - i \in observed
                   /\ \A z \in observed : z <= fi[i] - i
            /\ \A i \in 1..(Len(fi) - 1) : fi[i + 1] = fi[i] + 1

\* a forecast of two or more years from a table whose rows are not in year order
\* and whose latest row of the target country holds no renewable_share
C8_Witness ==
    /\ pc = "done"
    /\ args.steps >= 2
    /\ \E i, j \in 1..Len(dataset.rows) :
           /\ i < j
           /\ dataset.rows[i]["country_code"] = args.country_code
           /\ dataset.rows[j]["country_code"] = args.country_code
           /\ dataset.rows[i]["year"] > dataset.rows[j]["year"]
           /\ dataset.rows[i]["renewable_share"] = <<0, 0>>
           /\ dataset.rows[j]["renewable_share"] # <<0, 0>>

\* the files of a complete run, in the order main writes them
OutputPaths ==
    <<"data/processed_data.csv", "figures/renewable_share_trends.png",
      "figures/energy_use_per_capita_trends.png",
      "figures/renewable_vs_energyuse_scatter.png", "figures/kmeans_clusters.png",
      "figures/usa_renewable_share_forecast.png">>

\* the number of files written when main is about to run the statement
WrittenBefore(step) ==
    CASE step \in {"fetch", "merge", "filter_year_code", "filter_isin", "dropna",
                   "rename", "derive", "to_csv"} -> 0
      [] step = "trend_renewable" -> 1
      [] step = "trend_energy" -> 2
      [] step \in {"latest", "scatter"} -> 3
      [] step = "clusters" -> 4
      [] step = "forecast" -> 5
      [] step = "done" -> 6

\* C9 (abort at the point of failure): the files written are always the first
\* files of the fixed order CSV, two trend charts, scatter, clusters, forecast,
\* as many as the statements completed; the CSV is written only after the four
\* fetches; a failed run holds exactly the files written before the failing
\* statement and takes no further step; the run is complete only with all six.
C9_AbortAtFailure ==
    LET paths == [i \in 1..Len(artifacts) |-> artifacts[i].path]
        at == IF pc = "failed" THEN error.at ELSE pc
    IN  /\ Len(paths) <= Len(OutputPaths)
        /\ paths = SubSeq(OutputPaths, 1, Len(paths))
        /\ Len(paths) = WrittenBefore(at)
        /\ Len(paths) > 0 => requests = 4
        /\ pc = "fetch" => requests = Len(frames) /\ requests < 4
        /\ pc = "done" => paths = OutputPaths
        /\ pc \in {"failed", "done"} => ~ENABLED Next

\* the cluster chart failed: the CSV and three charts are written, the forecast
\* chart is not
C9_Witness ==
    /\ pc = "failed"
    /\ error.at = "clusters"
    /\ Len(artifacts) = 4

\* C10 as stated: a trend chart has exactly one line per country_code of the
\* table, and the points of each line are in ascending order of year.
C10_TrendOrdering ==
    \A a \in 1..Len(artifacts) :
        artifacts[a].path \in {"figures/renewable_share_trends.png",
                               "figures/energy_use_per_capita_trends.png"} =>
            LET lines == artifacts[a].content
                codes == {dataset.rows[i]["country_code"] : i \in 1..Len(dataset.rows)}
            IN  /\ {lines[g].label : g \in 1..Len(lines)} = codes
                /\ Len(lines) = Cardinality(codes)
                /\ \A g \in 1..Len(lines) :
                       \A i \in 1..(Len(lines[g].x) - 1) :
                           lines[g].x[i] <= lines[g].x[i + 1]

====
